---- MODULE Spec2Model ----
(***************************************************************************)
(* Model of the document-to-summary pipeline of Multipdf-summarizer:       *)
(*   backend/Summarization.py  summarize_text, clean_model_json_output,    *)
(*                             summarize_multiple_documents,               *)
(*                             filter_terms_and_conditions                 *)
(*   backend/app.py            extract_text_from_pdf,                      *)
(*                             extract_text_with_pypdf2                    *)
(*                                                                         *)
(* A Python str is a sequence of lexemes (TLA+ strings): one lexeme is a   *)
(* character or a fixed run of characters (a code fence, a phrase of a      *)
(* pattern, a literal message of the code).  A Python value returned by    *)
(* the summarizer is a record [t, keys, s]: its type, the keys of a dict,  *)
(* and the text it carries.                                                *)
(***************************************************************************)
EXTENDS Naturals, Sequences, FiniteSets, TLC

VARIABLES
  \* summarize_text / summarize_multiple_documents: one call
  sMode,        \* "narrative" (summarize_text) or "structured"
  sText,        \* the text argument
  sFileNames,   \* the file_names argument (structured mode)
  sPc,          \* "entry", "primary", "fallback", "done"
  sPrompt,      \* the local variable prompt: [bound, ...]
  sCalls,       \* generate_content calls made so far: <<[model, prompt]>>
  sPrimaryOut,  \* what the primary model call produced
  sFallbackOut, \* what the fallback model call produced
  sResult,      \* the value returned
  \* extract_text_from_pdf: one call
  eAvailable,   \* textract_client is not None
  eExpense,     \* what analyze_expense does for this document
  eForms,       \* what analyze_document does for this document
  ePdf,         \* what PyPDF2 does for this document
  ePc,          \* "entry", "expense", "forms", "local", "done"
  eCalls,       \* collaborator calls made so far, in order
  eResult,      \* the str returned
  \* filter_terms_and_conditions: applied once, then to its own output
  fIn, fOut1, fOut2, fPc,
  \* upload_file / upload_multiple_files
  uReq,         \* per request: its files, position, locals and response
  uDisk         \* the uploads folder: per filename, the bytes saved there

sumVars == <<sMode, sText, sFileNames, sPc, sPrompt, sCalls, sPrimaryOut,
             sFallbackOut, sResult>>
extVars == <<eAvailable, eExpense, eForms, ePdf, ePc, eCalls, eResult>>
filVars == <<fIn, fOut1, fOut2, fPc>>
upVars == <<uReq, uDisk>>
vars == <<sumVars, extVars, filVars, upVars>>

(***************************************************************************)
(* Bounds of the model.                                                    *)
(***************************************************************************)
MaxTextLen == 2      \* lexemes in a text handed to the summarizer
MaxOutLen == 3       \* lexemes in a model's response text
MaxPages == 2        \* pages of a document read by PyPDF2
MaxPageLen == 2      \* lexemes of one page's (or LINE block's) text
MaxLines == 2        \* LINE blocks in an analyze_document response
MaxFields == 2       \* distinct expense fields in an analyze_expense response
MaxFilterLen == 5    \* lexemes in a text handed to the filter

\* the sequences of at most n elements of S
SeqsUpTo(S, n) == UNION {[1..k -> S] : k \in 0..n}

(***************************************************************************)
(* Python str helpers.                                                     *)
(***************************************************************************)
Whitespace == {" ", "\n"}

RECURSIVE LStrip(_)
LStrip(s) == IF s # <<>> /\ Head(s) \in Whitespace THEN LStrip(Tail(s)) ELSE s

RECURSIVE RStrip(_)
RStrip(s) ==
  IF s # <<>> /\ s[Len(s)] \in Whitespace THEN RStrip(SubSeq(s, 1, Len(s) - 1)) ELSE s

\* str.strip()
Strip(s) == RStrip(LStrip(s))

\* str.isspace(): at least one character and all of them whitespace
IsSpace(s) == s # <<>> /\ \A i \in 1..Len(s) : s[i] \in Whitespace

\* a faulty blank check, `not text` alone: a text of whitespace passes
BlankEmptyOnly(s) == s = <<>>

\* `not text or text.isspace()`
Blank(s) == s = <<>> \/ IsSpace(s)

\* str.startswith for a one-lexeme prefix
StartsWith(s, p) == s # <<>> /\ s[1] = p

RECURSIVE Join(_, _)
Join(names, sep) ==
  IF names = <<>> THEN <<>>
  ELSE IF Len(names) = 1 THEN <<names[1]>>
  ELSE <<names[1], sep>> \o Join(Tail(names), sep)

(***************************************************************************)
(* Python values returned by the summarizer.                               *)
(***************************************************************************)
PyStr(s) == [t |-> "str", keys |-> {}, s |-> s]
PyDict(keys, s) == [t |-> "dict", keys |-> keys, s |-> s]
PyOther(t) == [t |-> t, keys |-> {}, s |-> <<>>]
NoValue == [t |-> "none", keys |-> {}, s |-> <<>>]

SchemaFields == {"traveler_info", "travel_details", "accommodation_details",
                 "cost_summary", "notes", "overview"}

(***************************************************************************)
(* The LLM collaborator: generate_content(prompt) and the response's text. *)
(***************************************************************************)
PrimaryModel == "gemini-1.5-flash-latest"
FallbackModel == "gemini-1.0-pro-latest"

\* the Markdown code-fence marker, three backquotes
Fence == "<fence>"
JsonTag == "json"
\* one member of a JSON object, with a key of the schema
MemberTok == "\"overview\":\"\""
MemberKey == "overview"

\* lexemes a model's response text is made of
OutAlphabet == {"{", "}", "[", "]", "1", "x", " ", Fence, JsonTag, MemberTok}

\* generate_content raises; or it returns a response whose .text raises;
\* or it returns a response with a text
Outcomes ==
  {[kind |-> "raise", text |-> <<>>], [kind |-> "notext", text |-> <<>>]}
  \cup {[kind |-> "text", text |-> t] : t \in SeqsUpTo(OutAlphabet, MaxOutLen)}
NotCalled == [kind |-> "none", text |-> <<>>]

\* str(e) of the exception a failed attempt raised
ErrorText(out) == IF out.kind = "raise" THEN "model error" ELSE "response has no text"

(***************************************************************************)
(* Output repair: clean_model_json_output, then json.loads.                *)
(***************************************************************************)
\* re.sub(r"^```(?:json)?", "", text, flags=re.IGNORECASE)
DropLeadingFence(s) ==
  IF s # <<>> /\ s[1] = Fence
  THEN IF Len(s) >= 2 /\ s[2] = JsonTag THEN SubSeq(s, 3, Len(s)) ELSE Tail(s)
  ELSE s

\* re.sub(r"```$", "", text), on a text that ends with no newline
DropTrailingFence(s) ==
  IF s # <<>> /\ s[Len(s)] = Fence THEN SubSeq(s, 1, Len(s) - 1) ELSE s

Positions(s, c) == {i \in 1..Len(s) : s[i] = c}
Min(S) == CHOOSE m \in S : \A n \in S : m <= n
Max(S) == CHOOSE m \in S : \A n \in S : n <= m

\* re.search(r"\{.*\}", text, re.DOTALL): from the first "{" to the last "}"
HasBraceSpan(s) ==
  /\ Positions(s, "{") # {}
  /\ \E j \in Positions(s, "}") : j > Min(Positions(s, "{"))

BraceSpan(s) == SubSeq(s, Min(Positions(s, "{")), Max(Positions(s, "}")))

clean_model_json_output(text) ==
  LET t1 == DropLeadingFence(Strip(text))
      t2 == DropTrailingFence(Strip(t1))
  IN IF HasBraceSpan(t2) THEN BraceSpan(t2) ELSE Strip(t2)

\* json.loads: the JSON values that can be written with the lexemes of
\* OutAlphabet: a number (a run of digits), an array of at most one value,
\* an object of at most one member; whitespace is allowed around a value.
RECURSIVE SkipWs(_, _)
SkipWs(s, i) == IF i <= Len(s) /\ s[i] \in Whitespace THEN SkipWs(s, i + 1) ELSE i

RECURSIVE SkipDigits(_, _)
SkipDigits(s, i) == IF i <= Len(s) /\ s[i] = "1" THEN SkipDigits(s, i + 1) ELSE i

ParseFail == [ok |-> FALSE, next |-> 0, val |-> NoValue]
ParseOk(next, val) == [ok |-> TRUE, next |-> next, val |-> val]
At(s, i, c) == i <= Len(s) /\ s[i] = c

RECURSIVE ParseValue(_, _)
ParseValue(s, i) ==
  LET k == SkipWs(s, i)
  IN IF At(s, k, "1") THEN ParseOk(SkipDigits(s, k), PyOther("number"))
     ELSE IF At(s, k, "[") THEN
       LET k2 == SkipWs(s, k + 1)
       IN IF At(s, k2, "]") THEN ParseOk(k2 + 1, PyOther("list"))
          ELSE LET e == ParseValue(s, k2)
                   k3 == SkipWs(s, e.next)
               IN IF e.ok /\ At(s, k3, "]")
                  THEN ParseOk(k3 + 1, PyOther("list")) ELSE ParseFail
     ELSE IF At(s, k, "{") THEN
       LET k2 == SkipWs(s, k + 1)
       IN IF At(s, k2, "}") THEN ParseOk(k2 + 1, PyDict({}, <<>>))
          ELSE LET k3 == SkipWs(s, k2 + 1)
               IN IF At(s, k2, MemberTok) /\ At(s, k3, "}")
                  THEN ParseOk(k3 + 1, PyDict({MemberKey}, <<>>)) ELSE ParseFail
     ELSE ParseFail

\* json.loads(s): [ok |-> FALSE] stands for the JSONDecodeError it raises
json_loads(s) ==
  LET r == ParseValue(s, 1)
  IN IF r.ok /\ SkipWs(s, r.next) > Len(s) THEN r ELSE ParseFail

\* the inner try/except of summarize_multiple_documents (lines 161-167 and
\* 174-179): the parsed value, or the raw text under "raw_summary"
Repair(text) ==
  LET parsed == json_loads(clean_model_json_output(text))
  IN IF parsed.ok THEN parsed.val ELSE PyDict({"raw_summary"}, Strip(text))

(***************************************************************************)
(* summarize_text (Summarization.py 17-50) and                             *)
(* summarize_multiple_documents (Summarization.py 72-181).                 *)
(***************************************************************************)
DefaultMaxWordsText == 1000
DefaultMaxWordsMulti == 500

\* lexemes of a text handed to the summarizer
TextAlphabet == {" ", "a"}

\* the file_names argument: None, a list of str, or a list holding a
\* value that is not a str (on which ", ".join raises TypeError)
NoFileNames == [given |-> FALSE, strs |-> TRUE, names |-> <<>>]
FileNameArgs ==
  {NoFileNames}
  \cup {[given |-> TRUE, strs |-> TRUE, names |-> n] :
          n \in {<<>>, <<"a.pdf">>, <<"a.pdf", "b.txt">>}}
  \cup {[given |-> TRUE, strs |-> FALSE, names |-> <<"a.pdf">>]}

UnboundPrompt ==
  [bound |-> FALSE, template |-> "", max_words |-> 0, files_info |-> <<>>, text |-> <<>>]

\* lines 32-37
NarrativePrompt(text, max_words) ==
  [bound |-> TRUE, template |-> "narrative", max_words |-> max_words,
   files_info |-> <<>>, text |-> text]

\* lines 88-90: `if file_names:` holds for a list that is not empty
FilesInfo(file_names) ==
  IF file_names.given /\ file_names.names # <<>>
  THEN <<"Documents analyzed: ">> \o Join(file_names.names, ", ")
  ELSE <<>>

\* ", ".join(file_names) raises: the list is not empty and holds a non-str
JoinRaises(file_names) ==
  file_names.given /\ file_names.names # <<>> /\ ~file_names.strs

\* lines 92-158
StructuredPrompt(text, file_names, max_words) ==
  [bound |-> TRUE, template |-> "structured", max_words |-> max_words,
   files_info |-> FilesInfo(file_names), text |-> text]

NoTextMessage == "No text provided for summarization."

\* lines 28-29 and 84-85
BlankResult(mode) ==
  IF mode = "narrative" THEN PyStr(<<NoTextMessage>>)
  ELSE PyDict({"error"}, <<NoTextMessage>>)

\* lines 40, 48 (response.text.strip()) and 161-167, 174-179
SuccessResult(mode, text) ==
  IF mode = "narrative" THEN PyStr(Strip(text)) ELSE Repair(text)

\* lines 50 and 181
FailureResult(mode, message) ==
  IF mode = "narrative" THEN PyStr(<<"Error during summarization: ", message>>)
  ELSE PyDict({"error"}, <<"Error during multi-document summarization: ", message>>)

\* the blank check, then the prompt built inside the try block
Enter ==
  /\ sPc = "entry"
  /\ IF Blank(sText)
     THEN /\ sResult' = BlankResult(sMode)
          /\ sPc' = "done"
          /\ UNCHANGED sPrompt
     ELSE IF sMode = "structured" /\ JoinRaises(sFileNames)
     THEN /\ sPc' = "fallback"
          /\ UNCHANGED <<sPrompt, sResult>>
     ELSE /\ sPrompt' = IF sMode = "narrative"
                        THEN NarrativePrompt(sText, DefaultMaxWordsText)
                        ELSE StructuredPrompt(sText, sFileNames, DefaultMaxWordsMulti)
          /\ sPc' = "primary"
          /\ UNCHANGED sResult
  /\ UNCHANGED <<sMode, sText, sFileNames, sCalls, sPrimaryOut, sFallbackOut>>
  /\ UNCHANGED <<extVars, filVars, upVars>>

\* model.generate_content(prompt) and the use of response.text: a text is
\* returned (trimmed or repaired); any exception enters the except block
CallPrimary ==
  /\ sPc = "primary"
  /\ \E out \in Outcomes :
       /\ sCalls' = Append(sCalls, [model |-> PrimaryModel, prompt |-> sPrompt])
       /\ sPrimaryOut' = out
       /\ IF out.kind = "text"
          THEN sResult' = SuccessResult(sMode, out.text) /\ sPc' = "done"
          ELSE sPc' = "fallback" /\ UNCHANGED sResult
  /\ UNCHANGED <<sMode, sText, sFileNames, sPrompt, sFallbackOut>>
  /\ UNCHANGED <<extVars, filVars, upVars>>

\* a faulty except block, which builds a prompt of its own for the fallback
\* model instead of reusing the one the primary received
CallFallbackOwnPrompt ==
  /\ sPc = "fallback"
  /\ sPrompt.bound
  /\ \E out \in Outcomes :
       /\ sCalls' = Append(sCalls, [model |-> FallbackModel,
                                    prompt |-> [sPrompt EXCEPT !.max_words = 0]])
       /\ sFallbackOut' = out
       /\ sResult' = IF out.kind = "text" THEN SuccessResult(sMode, out.text)
                     ELSE FailureResult(sMode, ErrorText(out))
  /\ sPc' = "done"
  /\ UNCHANGED <<sMode, sText, sFileNames, sPrompt, sPrimaryOut>>
  /\ UNCHANGED <<extVars, filVars, upVars>>

\* the except block: fallback_model.generate_content(prompt)
CallFallback ==
  /\ sPc = "fallback"
  /\ sPrompt.bound
  /\ \E out \in Outcomes :
       /\ sCalls' = Append(sCalls, [model |-> FallbackModel, prompt |-> sPrompt])
       /\ sFallbackOut' = out
       /\ sResult' = IF out.kind = "text" THEN SuccessResult(sMode, out.text)
                     ELSE FailureResult(sMode, ErrorText(out))
  /\ sPc' = "done"
  /\ UNCHANGED <<sMode, sText, sFileNames, sPrompt, sPrimaryOut>>
  /\ UNCHANGED <<extVars, filVars, upVars>>

\* the except block entered before prompt was assigned: evaluating the
\* argument of generate_content raises NameError, caught at line 180
FallbackUnboundPrompt ==
  /\ sPc = "fallback"
  /\ ~sPrompt.bound
  /\ sResult' = FailureResult(sMode, "name 'prompt' is not defined")
  /\ sPc' = "done"
  /\ UNCHANGED <<sMode, sText, sFileNames, sPrompt, sCalls, sPrimaryOut, sFallbackOut>>
  /\ UNCHANGED <<extVars, filVars, upVars>>

SumInit ==
  /\ sMode \in {"narrative", "structured"}
  /\ sText \in SeqsUpTo(TextAlphabet, MaxTextLen)
  /\ sFileNames \in IF sMode = "structured" THEN FileNameArgs ELSE {NoFileNames}
  /\ sPc = "entry"
  /\ sPrompt = UnboundPrompt
  /\ sCalls = <<>>
  /\ sPrimaryOut = NotCalled
  /\ sFallbackOut = NotCalled
  /\ sResult = NoValue

SumIdle ==
  /\ sMode = "narrative"
  /\ sText = <<>>
  /\ sFileNames = NoFileNames
  /\ sPc = "idle"
  /\ sPrompt = UnboundPrompt
  /\ sCalls = <<>>
  /\ sPrimaryOut = NotCalled
  /\ sFallbackOut = NotCalled
  /\ sResult = NoValue

ExtIdle ==
  /\ eAvailable = FALSE
  /\ eExpense = [kind |-> "none", n |-> 0]
  /\ eForms = [kind |-> "none", blocks |-> <<>>]
  /\ ePdf = [kind |-> "none", pages |-> <<>>]
  /\ ePc = "idle"
  /\ eCalls = <<>>
  /\ eResult = <<>>

FilIdle ==
  /\ fIn = <<>>
  /\ fOut1 = <<>>
  /\ fOut2 = <<>>
  /\ fPc = "idle"

\* the requests of the upload routes
Requests == {1, 2}

\* a filename is a stem and an extension; one stem is a phrase of the filter
Names == {<<"a", ".txt">>, <<"b", ".pdf">>, <<"Policies", ".pdf">>, <<"c", ".exe">>}

NoHanded == [fn |-> "none", text |-> <<>>, file_names |-> <<>>]
NoResponse == [status |-> 0, error |-> ""]

\* the locals of a handler before it runs, with a record of what it did:
\* the files it saved, the documents (name and text) it extracted and
\* appended, the stages it ran, what it handed to the summarizer
NewRequest(route, files) ==
  [route |-> route, files |-> files, pc |-> "entry", i |-> 1,
   file_path |-> <<>>, extracted_text |-> <<>>, combined_text |-> <<>>,
   file_names |-> <<>>, successful_files |-> <<>>, saved |-> <<>>,
   documents |-> <<>>, stages |-> <<>>, handed |-> NoHanded,
   response |-> NoResponse]

IdleRequest == [NewRequest("none", <<>>) EXCEPT !.pc = "idle"]

NoFile == [present |-> FALSE, text |-> <<>>]
EmptyDisk == [n \in Names |-> NoFile]

UpIdle ==
  /\ uReq = [r \in Requests |-> IdleRequest]
  /\ uDisk = EmptyDisk

SumNext == Enter \/ CallPrimary \/ CallFallback \/ FallbackUnboundPrompt

InitSummarize == SumInit /\ ExtIdle /\ FilIdle /\ UpIdle

SpecSummarize == InitSummarize /\ [][SumNext]_vars

(***************************************************************************)
(* extract_text_from_pdf (app.py 61-118) and                               *)
(* extract_text_with_pypdf2 (app.py 120-138).                              *)
(***************************************************************************)
\* lexemes of a page's text or of a LINE block's text
PageAlphabet == {" ", "a"}
PageTexts == SeqsUpTo(PageAlphabet, MaxPageLen)

\* analyze_expense: a response with n distinct fields (n may be 0), the
\* UnsupportedDocumentException, or any other error (ClientError, ...)
ExpenseOutcomes ==
  {[kind |-> "fields", n |-> n] : n \in 0..MaxFields}
  \cup {[kind |-> "unsupported", n |-> 0], [kind |-> "error", n |-> 0]}

\* analyze_document: a response with blocks, the
\* UnsupportedDocumentException, or any other error
Blocks == [BlockType : {"LINE", "WORD"}, Text : PageTexts]
FormsOutcomes ==
  {[kind |-> "blocks", blocks |-> b] : b \in SeqsUpTo(Blocks, MaxLines)}
  \cup {[kind |-> "unsupported", blocks |-> <<>>], [kind |-> "error", blocks |-> <<>>]}

\* PyPDF2: the pages' texts (an empty text for a page without a text
\* layer), ImportError, or any other error (not a PDF, unreadable file)
PdfOutcomes ==
  {[kind |-> "pages", pages |-> p] : p \in SeqsUpTo(PageTexts, MaxPages)}
  \cup {[kind |-> "import_error", pages |-> <<>>], [kind |-> "error", pages |-> <<>>]}

\* line 90: json.dumps(extracted_data), a dict of n fields
RECURSIVE FieldLexemes(_)
FieldLexemes(n) == IF n = 0 THEN <<>> ELSE Append(FieldLexemes(n - 1), "field")
JsonDumps(n) == <<"{">> \o FieldLexemes(n) \o <<"}">>

NoDataMessage == "No data was detected in the document."
NoPdfTextMessage == "No text could be extracted from the PDF."

\* lines 102-105: the LINE blocks' texts, a newline after each
RECURSIVE LineText(_)
LineText(blocks) ==
  IF blocks = <<>> THEN <<>>
  ELSE (IF Head(blocks).BlockType = "LINE" THEN Head(blocks).Text \o <<"\n">> ELSE <<>>)
       \o LineText(Tail(blocks))

\* a faulty marker, numbered by page_num (from 0) instead of page_num + 1
PageMarkerZeroBased(n) == "--- PAGE " \o ToString(n - 1) \o " ---"

\* line 132: the f-string "--- PAGE {page_num + 1} ---" between two newlines
PageMarker(n) == "--- PAGE " \o ToString(n) \o " ---"

\* lines 128-133, over pages[i..]: enumerate counts from 0, the marker from 1
RECURSIVE PagesText(_, _)
PagesText(pages, i) ==
  IF i > Len(pages) THEN <<>>
  ELSE (IF pages[i] # <<>> THEN <<"\n", PageMarker(i), "\n">> \o pages[i] ELSE <<>>)
       \o PagesText(pages, i + 1)

\* lines 124-138
extract_text_with_pypdf2(out) ==
  IF out.kind = "import_error"
  THEN <<"Error: PyPDF2 library not installed. Please install it with: pip install PyPDF2">>
  ELSE IF out.kind = "error" THEN <<"Error extracting text from PDF: ", "parser error">>
  ELSE LET text == PagesText(out.pages, 1)
       IN IF Strip(text) # <<>> THEN Strip(text) ELSE <<NoPdfTextMessage>>

\* lines 66-70: without a Textract client the local parser is used at once
ExtEnter ==
  /\ ePc = "entry"
  /\ ePc' = IF eAvailable THEN "expense" ELSE "local"
  /\ UNCHANGED <<eAvailable, eExpense, eForms, ePdf, eCalls, eResult>>
  /\ UNCHANGED <<sumVars, filVars, upVars>>

\* lines 73-92 and 113-118
AnalyzeExpense ==
  /\ ePc = "expense"
  /\ \E out \in ExpenseOutcomes :
       /\ eExpense' = out
       /\ eCalls' = Append(eCalls, "analyze_expense")
       /\ IF out.kind = "fields" /\ out.n > 0
          THEN eResult' = JsonDumps(out.n) /\ ePc' = "done"
          ELSE IF out.kind = "fields"
          THEN eResult' = <<NoDataMessage>> /\ ePc' = "done"
          ELSE IF out.kind = "unsupported"
          THEN ePc' = "forms" /\ UNCHANGED eResult
          ELSE ePc' = "local" /\ UNCHANGED eResult
  /\ UNCHANGED <<eAvailable, eForms, ePdf>>
  /\ UNCHANGED <<sumVars, filVars, upVars>>

\* lines 92-111 and 115-118
AnalyzeDocument ==
  /\ ePc = "forms"
  /\ \E out \in FormsOutcomes :
       /\ eForms' = out
       /\ eCalls' = Append(eCalls, "analyze_document")
       /\ IF out.kind = "blocks"
          THEN eResult' = Strip(LineText(out.blocks)) /\ ePc' = "done"
          ELSE ePc' = "local" /\ UNCHANGED eResult
  /\ UNCHANGED <<eAvailable, eExpense, ePdf>>
  /\ UNCHANGED <<sumVars, filVars, upVars>>

\* lines 70, 111, 118: return extract_text_with_pypdf2(pdf_file_path)
LocalParser ==
  /\ ePc = "local"
  /\ \E out \in PdfOutcomes :
       /\ ePdf' = out
       /\ eCalls' = Append(eCalls, "PyPDF2")
       /\ eResult' = extract_text_with_pypdf2(out)
  /\ ePc' = "done"
  /\ UNCHANGED <<eAvailable, eExpense, eForms>>
  /\ UNCHANGED <<sumVars, filVars, upVars>>

ExtInit ==
  /\ eAvailable \in BOOLEAN
  /\ eExpense = [kind |-> "none", n |-> 0]
  /\ eForms = [kind |-> "none", blocks |-> <<>>]
  /\ ePdf = [kind |-> "none", pages |-> <<>>]
  /\ ePc = "entry"
  /\ eCalls = <<>>
  /\ eResult = <<>>

ExtNext == ExtEnter \/ AnalyzeExpense \/ AnalyzeDocument \/ LocalParser

InitExtract == SumIdle /\ ExtInit /\ FilIdle /\ UpIdle

SpecExtract == InitExtract /\ [][ExtNext]_vars

(***************************************************************************)
(* filter_terms_and_conditions (Summarization.py 205-252).                 *)
(***************************************************************************)
\* (?=\n\n) in a raw string: the lookahead for two newline characters
RawBoundary == <<"\n", "\n">>
\* (?=\\n\\n) in a raw string: the lookahead for the four characters
\* backslash, n, backslash, n; "\\n" is the lexeme backslash-n
EscapedBoundary == <<"\\n", "\\n">>

Pattern(phrase, boundary) == [phrase |-> phrase, boundary |-> boundary]

\* lines 216-245, in the order of the list; a phrase that shares a word
\* with another phrase is split into its words and the spaces between
patterns == <<
  Pattern(<<"Rules", " ", "and policies">>, RawBoundary),
  Pattern(<<"Terms and conditions">>, RawBoundary),
  Pattern(<<"Policies">>, RawBoundary),
  Pattern(<<"Guest Profile">>, RawBoundary),
  Pattern(<<"Id Proof Related">>, RawBoundary),
  Pattern(<<"Food Arrangement">>, RawBoundary),
  Pattern(<<"Smoking/alcohol Consumption", " ", "Rules">>, RawBoundary),
  Pattern(<<"Pets Related">>, RawBoundary),
  Pattern(<<"Property Accessibility">>, RawBoundary),
  Pattern(<<"Other", " ", "Rules">>, EscapedBoundary),
  Pattern(<<"Child / Extra Bed Policy">>, EscapedBoundary),
  Pattern(<<"Adult / Extra Bed Policy">>, EscapedBoundary),
  Pattern(<<"PNRs having fully waitlisted status">>, EscapedBoundary),
  Pattern(<<"clerkage charge">>, EscapedBoundary),
  Pattern(<<"Passengers travelling on a fully waitlisted">>, EscapedBoundary),
  Pattern(<<"Obtain certificate from the TTE">>, EscapedBoundary),
  Pattern(<<"In case, on a party e-ticket">>, EscapedBoundary),
  Pattern(<<"In case train is late more than 3 hours">>, EscapedBoundary),
  Pattern(<<"In case of train cancellation">>, EscapedBoundary),
  Pattern(<<"Never purchase e-ticket from unauthorized agents">>, EscapedBoundary),
  Pattern(<<"For detail,", " ", "Rules", ", Refund rules">>, EscapedBoundary),
  Pattern(<<"While booking this ticket">>, EscapedBoundary),
  Pattern(<<"The FIR forms are available">>, EscapedBoundary),
  Pattern(<<"Variety of meals available">>, EscapedBoundary),
  Pattern(<<"National Consumer Helpline">>, EscapedBoundary),
  Pattern(<<"You can book unreserved ticket">>, EscapedBoundary),
  Pattern(<<"As per RBI guidelines">>, EscapedBoundary),
  Pattern(<<"Customer Care">>, EscapedBoundary) >>

\* line 251
ImagePattern == Pattern(<<"[image]">>, RawBoundary)

\* the lexemes of p are those of s from position i on
OccursAt(s, p, i) ==
  /\ i + Len(p) - 1 <= Len(s)
  /\ \A k \in 1..Len(p) : s[i + k - 1] = p[k]

\* the first place at or after i where p occurs in s, 0 when there is none
FirstFrom(s, p, i) ==
  IF \E j \in i..Len(s) : s[j] = p[1]
  THEN LET at == {j \in i..Len(s) : OccursAt(s, p, j)}
       IN IF at = {} THEN 0 ELSE Min(at)
  ELSE 0

\* re.sub(phrase + r".*?(?=boundary)", "", s, flags=re.DOTALL), scanning
\* from position from: the leftmost phrase, then as few characters as
\* possible up to (not including) the next boundary, is removed; the scan
\* goes on where the match ended.  A phrase with no boundary after it
\* does not match, and neither does any later one.
\* a faulty substitution, whose pattern is the phrase alone: every
\* occurrence of the phrase is removed, the text after it is kept
RECURSIVE SubFromPhraseOnly(_, _, _)
SubFromPhraseOnly(s, pat, from) ==
  LET start == FirstFrom(s, pat.phrase, from)
  IN IF start = 0 THEN s
     ELSE SubFromPhraseOnly(SubSeq(s, 1, start - 1)
                              \o SubSeq(s, start + Len(pat.phrase), Len(s)),
                            pat, start)

RECURSIVE SubFrom(_, _, _)
SubFrom(s, pat, from) ==
  LET start == FirstFrom(s, pat.phrase, from)
      stop == IF start = 0 THEN 0
              ELSE FirstFrom(s, pat.boundary, start + Len(pat.phrase))
  IN IF start = 0 \/ stop = 0 THEN s
     ELSE SubFrom(SubSeq(s, 1, start - 1) \o SubSeq(s, stop, Len(s)), pat, start)

ReSub(s, pat) == SubFrom(s, pat, 1)

\* lines 247-248: for pattern in patterns: text = re.sub(pattern, '', text)
RECURSIVE ApplyPatterns(_, _)
ApplyPatterns(s, i) ==
  IF i > Len(patterns) THEN s
  ELSE CHOOSE out \in {ApplyPatterns(next, i + 1) : next \in {ReSub(s, patterns[i])}} : TRUE

\* a faulty filter, which returns the text without the final strip()
filter_without_strip(text) == ReSub(ApplyPatterns(text, 1), ImagePattern)

\* lines 247-252
filter_terms_and_conditions(text) ==
  Strip(ReSub(ApplyPatterns(text, 1), ImagePattern))

\* lexemes of a text handed to the filter
FilterAlphabet ==
  {"Rules", "and policies", "Other", "Policies", "[image]", "\n", "\\n", " "}

ApplyFilter ==
  /\ fPc = "start"
  /\ fOut1' = filter_terms_and_conditions(fIn)
  /\ fPc' = "once"
  /\ UNCHANGED <<fIn, fOut2>>
  /\ UNCHANGED <<sumVars, extVars, upVars>>

ApplyFilterAgain ==
  /\ fPc = "once"
  /\ fOut2' = filter_terms_and_conditions(fOut1)
  /\ fPc' = "twice"
  /\ UNCHANGED <<fIn, fOut1>>
  /\ UNCHANGED <<sumVars, extVars, upVars>>

FilInit ==
  /\ fIn \in SeqsUpTo(FilterAlphabet, MaxFilterLen)
  /\ fOut1 = <<>>
  /\ fOut2 = <<>>
  /\ fPc = "start"

FilNext == ApplyFilter \/ ApplyFilterAgain

InitFilter == SumIdle /\ ExtIdle /\ FilInit /\ UpIdle

SpecFilter == InitFilter /\ [][FilNext]_vars

(***************************************************************************)
(* upload_file (app.py 141-247) and upload_multiple_files (app.py 250-320),*)
(* with get_summary_from_extracted_text (Summarization.py 255-274).  A      *)
(* handler is cut at its file-system calls: the save, the read (or the     *)
(* extraction) and the removal of a file are steps of their own, so that   *)
(* requests served by different worker processes interleave between them.  *)
(* os.remove is taken to succeed.                                          *)
(***************************************************************************)
MaxFiles == 2        \* files submitted in one request

Routes == {"upload", "upload-multiple"}

\* lines 160 and 267
allowed_extensions == {".txt", ".pdf", ".png", ".jpg", ".jpeg"}

\* os.path.splitext(file.filename)[1].lower()
file_extension(name) == name[Len(name)]

\* what a document's bytes read as: the text of a .txt file, or the str
\* that extract_text_from_pdf returns for a PDF or an image
DocTexts ==
  {<<>>, <<"x">>, <<"Policies">>, <<"Other", " ", "Rules">>,
   <<"x", "\\n", "\\n">>, <<"Error occurred:", " x">>}

UploadFiles == [name : Names, text : DocTexts]

\* the files of two requests that run in parallel: each request's bytes
\* read as a text of its own
OwnText(r) == IF r = 1 THEN <<"x">> ELSE <<"y">>
ParallelFiles(r) == [name : {<<"a", ".txt">>, <<"b", ".pdf">>}, text : {OwnText(r)}]

\* line 293: the separator header of one document in combined_text
Header(name) == <<"\n", "\n", "--- Content from ">> \o name \o <<" ---", "\n", "\n">>

\* a stage of the pipeline and what it ran on
Stage(stage, on) == [stage |-> stage, on |-> on]

\* return JSONResponse(status_code=..., content={"error": ...})
Respond(req, status, error) ==
  [req EXCEPT !.pc = "done", !.response = [status |-> status, error |-> error]]

\* extract_text_from_pdf(file_path) on what the path holds now; a missing
\* file makes every open() raise, down to the except of the local parser
ExtractFromDisk(name) ==
  IF uDisk[name].present THEN uDisk[name].text
  ELSE <<"Error extracting text from PDF: ", "No such file or directory">>

\* get_summary_from_extracted_text (Summarization.py 255-274): the filter on
\* the text it is given, then the summarizer on the filtered text
get_summary_from_extracted_text(extracted_text, file_names, is_multiple) ==
  LET filtered_text == filter_terms_and_conditions(extracted_text)
  IN IF is_multiple \/ Len(file_names) > 1
     THEN [fn |-> "summarize_multiple_documents", text |-> filtered_text,
           file_names |-> file_names]
     ELSE [fn |-> "summarize_text", text |-> filtered_text, file_names |-> <<>>]

\* lines 145-177: the checks of upload_file before the file is saved
UploadFileEnter(r) ==
  LET req == uReq[r] IN
  /\ req.pc = "entry"
  /\ req.route = "upload"
  /\ uReq' = [uReq EXCEPT ![r] =
       IF req.files = <<>> THEN Respond(req, 400, "No file provided")
       ELSE IF Len(req.files) > 1 THEN [req EXCEPT !.pc = "loop"]
       ELSE IF file_extension(req.files[1].name) \notin allowed_extensions
       THEN Respond(req, 400, "Unsupported file type")
       ELSE [req EXCEPT !.pc = "save", !.file_path = req.files[1].name]]
  /\ UNCHANGED uDisk
  /\ UNCHANGED <<sumVars, extVars, filVars>>

\* lines 253-261
UploadMultipleEnter(r) ==
  LET req == uReq[r] IN
  /\ req.pc = "entry"
  /\ req.route = "upload-multiple"
  /\ uReq' = [uReq EXCEPT ![r] =
       IF req.files = <<>> THEN Respond(req, 400, "No files provided")
       ELSE [req EXCEPT !.pc = "loop"]]
  /\ UNCHANGED uDisk
  /\ UNCHANGED <<sumVars, extVars, filVars>>

\* lines 180-191: open(file_path, "wb") and the copy, or the except
SingleSave(r) ==
  LET req == uReq[r] IN
  /\ req.pc = "save"
  /\ \E ok \in BOOLEAN :
       IF ok
       THEN /\ uDisk' = [uDisk EXCEPT ![req.file_path] =
                           [present |-> TRUE, text |-> req.files[1].text]]
            /\ uReq' = [uReq EXCEPT ![r] =
                 [req EXCEPT !.pc = "read", !.saved = Append(@, req.file_path)]]
       ELSE /\ uReq' = [uReq EXCEPT ![r] = Respond(req, 500, "Failed to save file")]
            /\ UNCHANGED uDisk
  /\ UNCHANGED <<sumVars, extVars, filVars>>

\* lines 194-210: the text file is read, or the document is extracted; both
\* early returns leave the saved file in place
SingleRead(r) ==
  LET req == uReq[r]
      name == req.file_path
  IN
  /\ req.pc = "read"
  /\ IF file_extension(name) = ".txt"
     THEN \E ok \in BOOLEAN :
            uReq' = [uReq EXCEPT ![r] =
              IF ok /\ uDisk[name].present
              THEN [req EXCEPT !.pc = "summarize",
                               !.extracted_text = uDisk[name].text,
                               !.stages = Append(@, Stage("extract", "document"))]
              ELSE Respond(req, 500, "Error reading text file")]
     ELSE LET extracted_text == ExtractFromDisk(name)
              extracted == [req EXCEPT !.extracted_text = extracted_text,
                                       !.stages = Append(@, Stage("extract", "document"))]
          IN uReq' = [uReq EXCEPT ![r] =
               IF StartsWith(extracted_text, "Error occurred:")
               THEN Respond(extracted, 500, "Error occurred:")
               ELSE [extracted EXCEPT !.pc = "summarize"]]
  /\ UNCHANGED uDisk
  /\ UNCHANGED <<sumVars, extVars, filVars>>

\* os.remove(file_path) under `if file_path and os.path.exists(file_path)`
Removed(disk, file_path) ==
  IF file_path # <<>> /\ disk[file_path].present
  THEN [disk EXCEPT ![file_path] = NoFile]
  ELSE disk

\* lines 213-215, and the except block of lines 233-247 when a statement
\* after the save raises (the print of line 215, say)
SingleSummarize(r) ==
  LET req == uReq[r]
      summarized ==
        [req EXCEPT !.handed = get_summary_from_extracted_text(req.extracted_text, <<>>, FALSE),
                    !.stages = @ \o <<Stage("filter", "document"),
                                      Stage("summarize", "document")>>]
  IN
  /\ req.pc = "summarize"
  /\ \E raised \in BOOLEAN :
       IF raised
       THEN /\ uDisk' = Removed(uDisk, req.file_path)
            /\ uReq' = [uReq EXCEPT ![r] =
                 Respond(summarized, 500, "An unexpected error occurred")]
       ELSE /\ uReq' = [uReq EXCEPT ![r] = [summarized EXCEPT !.pc = "cleanup"]]
            /\ UNCHANGED uDisk
  /\ UNCHANGED <<sumVars, extVars, filVars>>

\* lines 218-231: the file is removed and the summary returned
SingleCleanup(r) ==
  LET req == uReq[r] IN
  /\ req.pc = "cleanup"
  /\ uDisk' = Removed(uDisk, req.file_path)
  /\ uReq' = [uReq EXCEPT ![r] = Respond(req, 200, "")]
  /\ UNCHANGED <<sumVars, extVars, filVars>>

\* lines 263-276: the next file of the loop is skipped or saved; an error
\* of the save reaches the except of lines 315-320
MultiSave(r) ==
  LET req == uReq[r]
      file == req.files[req.i]
  IN
  /\ req.pc = "loop"
  /\ req.i <= Len(req.files)
  /\ IF file_extension(file.name) \notin allowed_extensions
     THEN /\ uReq' = [uReq EXCEPT ![r] = [req EXCEPT !.i = @ + 1]]
          /\ UNCHANGED uDisk
     ELSE \E ok \in BOOLEAN :
            IF ok
            THEN /\ uDisk' = [uDisk EXCEPT ![file.name] =
                                [present |-> TRUE, text |-> file.text]]
                 /\ uReq' = [uReq EXCEPT ![r] =
                      [req EXCEPT !.pc = "extract", !.file_path = file.name,
                                  !.saved = Append(@, file.name)]]
            ELSE /\ uReq' = [uReq EXCEPT ![r] =
                      Respond(req, 500, "An unexpected error occurred")]
                 /\ UNCHANGED uDisk
  /\ UNCHANGED <<sumVars, extVars, filVars>>

\* lines 279-295: the file is read or extracted and, unless that failed,
\* its header and its text are appended to combined_text
MultiRead(r) ==
  LET req == uReq[r]
      name == req.file_path
      skipped == [req EXCEPT !.pc = "loop", !.i = @ + 1]
      appended(extracted_text) ==
        [req EXCEPT !.pc = "loop", !.i = @ + 1,
                    !.extracted_text = extracted_text,
                    !.combined_text = @ \o Header(name) \o extracted_text,
                    !.file_names = Append(@, name),
                    !.successful_files = Append(@, name),
                    !.documents = Append(@, [name |-> name, text |-> extracted_text]),
                    !.stages = @ \o <<Stage("extract", "document"),
                                      Stage("aggregate", "corpus")>>]
  IN
  /\ req.pc = "extract"
  /\ IF file_extension(name) = ".txt"
     THEN \E ok \in BOOLEAN :
            uReq' = [uReq EXCEPT ![r] =
              IF ok /\ uDisk[name].present THEN appended(uDisk[name].text)
              ELSE skipped]
     ELSE uReq' = [uReq EXCEPT ![r] =
            IF StartsWith(ExtractFromDisk(name), "Error occurred:")
            THEN [skipped EXCEPT !.extracted_text = ExtractFromDisk(name),
                                 !.stages = Append(@, Stage("extract", "document"))]
            ELSE appended(ExtractFromDisk(name))]
  /\ UNCHANGED uDisk
  /\ UNCHANGED <<sumVars, extVars, filVars>>

\* lines 297-313: after the loop, the summary of combined_text is returned;
\* no file is removed
MultiSummarize(r) ==
  LET req == uReq[r] IN
  /\ req.pc = "loop"
  /\ req.i > Len(req.files)
  /\ uReq' = [uReq EXCEPT ![r] =
       IF req.combined_text = <<>>
       THEN Respond(req, 400, "No valid text could be extracted from any file")
       ELSE Respond(
              [req EXCEPT !.handed = get_summary_from_extracted_text(
                                       req.combined_text, req.file_names, TRUE),
                          !.stages = @ \o <<Stage("filter", "corpus"),
                                            Stage("summarize", "corpus"),
                                            Stage("repair", "corpus")>>],
              200, "")]
  /\ UNCHANGED uDisk
  /\ UNCHANGED <<sumVars, extVars, filVars>>

\* one request
UploadInit ==
  /\ \E route \in Routes, files \in SeqsUpTo(UploadFiles, MaxFiles) :
       uReq = [r \in Requests |-> IF r = 1 THEN NewRequest(route, files) ELSE IdleRequest]
  /\ uDisk = EmptyDisk

\* two requests in parallel
ParallelInit ==
  /\ \E route1 \in Routes, route2 \in Routes,
        files1 \in SeqsUpTo(ParallelFiles(1), MaxFiles),
        files2 \in SeqsUpTo(ParallelFiles(2), MaxFiles) :
       uReq = [r \in Requests |-> IF r = 1 THEN NewRequest(route1, files1)
                                            ELSE NewRequest(route2, files2)]
  /\ uDisk = EmptyDisk

UploadNext ==
  \E r \in Requests :
    \/ UploadFileEnter(r)
    \/ UploadMultipleEnter(r)
    \/ SingleSave(r)
    \/ SingleRead(r)
    \/ SingleSummarize(r)
    \/ SingleCleanup(r)
    \/ MultiSave(r)
    \/ MultiRead(r)
    \/ MultiSummarize(r)

InitUpload == SumIdle /\ ExtIdle /\ FilIdle /\ UploadInit

InitParallel == SumIdle /\ ExtIdle /\ FilIdle /\ ParallelInit

SpecUpload == InitUpload /\ [][UploadNext]_vars

SpecParallel == InitParallel /\ [][UploadNext]_vars

(***************************************************************************)
(* Properties of the summarizer (checked under SpecSummarize).             *)
(***************************************************************************)
Failed(out) == out.kind \in {"raise", "notext"}
FallbackCalls == {i \in 1..Len(sCalls) : sCalls[i].model = FallbackModel}
PrimaryCalls == {i \in 1..Len(sCalls) : sCalls[i].model = PrimaryModel}

\* C1: for a text that is not blank, the fallback model is invoked if and
\* only if the primary attempt raised (the call, or the reading of its
\* response text); it is invoked at most once, only after the primary
\* attempt and with the prompt the primary received; and when the fallback
\* yields a text, the value returned is that text trimmed (narrative mode)
\* or repaired (structured mode).
C1_FallbackPolicy ==
  /\ Cardinality(FallbackCalls) <= 1
  /\ Cardinality(PrimaryCalls) <= 1
  /\ \A i \in FallbackCalls :
       /\ i = 2
       /\ sCalls[1].model = PrimaryModel
       /\ sCalls[i].prompt = sCalls[1].prompt
       /\ sCalls[i].prompt.bound
       /\ sCalls[i].prompt.text = sText
       /\ Failed(sPrimaryOut)
  /\ (sPc = "done" /\ Failed(sPrimaryOut)) => FallbackCalls # {}
  /\ (sPc = "done" /\ sFallbackOut.kind = "text") =>
       /\ sMode = "narrative" =>
            sResult = [t |-> "str", keys |-> {}, s |-> Strip(sFallbackOut.text)]
       /\ sMode = "structured" =>
            \/ /\ json_loads(clean_model_json_output(sFallbackOut.text)).ok
               /\ sResult = json_loads(clean_model_json_output(sFallbackOut.text)).val
            \/ /\ ~json_loads(clean_model_json_output(sFallbackOut.text)).ok
               /\ sResult.keys = {"raw_summary"}
               /\ sResult.s = Strip(sFallbackOut.text)

\* a structured call whose primary raised and whose fallback answered with
\* a JSON object
C1_Witness ==
  /\ sPc = "done"
  /\ sMode = "structured"
  /\ sPrimaryOut.kind = "raise"
  /\ sFallbackOut.kind = "text"
  /\ Len(sCalls) = 2
  /\ sResult.t = "dict"
  /\ sResult.keys = {MemberKey}

\* C2: when the primary and the fallback both fail, the value returned is
\* an object with an explicit error field, in both modes, never a plain
\* string like a summary.
C2_ErrorVariant ==
  (sPc = "done" /\ Failed(sPrimaryOut) /\ Failed(sFallbackOut)) =>
    (sResult.t = "dict" /\ "error" \in sResult.keys)

\* C3: output repair yields a dict for every model text: the parsed
\* object, or the object with the key raw_summary.
C3_RepairYieldsDict ==
  (sPc = "done" /\ sMode = "structured") => sResult.t = "dict"

\* C4: every structured result that is not the error variant holds all
\* the declared schema fields.
C4_SchemaFieldsPresent ==
  (sPc = "done" /\ sMode = "structured" /\ "error" \notin sResult.keys) =>
    SchemaFields \subseteq sResult.keys

(***************************************************************************)
(* Properties of the extraction chain (checked under SpecExtract).         *)
(***************************************************************************)
\* C5: an expense analysis that returns without error and with no field
\* is treated as a failure: the chain goes on to the next step.
C5_EmptyExpenseFallsThrough ==
  (ePc = "done" /\ eExpense.kind = "fields" /\ eExpense.n = 0) =>
    (Len(eCalls) >= 2 /\ eCalls[2] \in {"analyze_document", "PyPDF2"})

\* the marker lines of the local parser, page 1 first
ExpectedMarkers ==
  <<"--- PAGE 1 ---", "--- PAGE 2 ---", "--- PAGE 3 ---", "--- PAGE 4 ---">>
MarkerSet == {ExpectedMarkers[n] : n \in 1..Len(ExpectedMarkers)}
IsMarker(l) == l \in MarkerSet
HasText(page) == page # <<>>
PageNumbers(pages) == [n \in 1..Len(pages) |-> n]

\* the text between the marker at position p and the next marker
AfterMarker(s, p) ==
  LET later == {q \in (p + 1)..Len(s) : IsMarker(s[q])}
  IN SubSeq(s, p + 1, IF later = {} THEN Len(s) ELSE Min(later) - 1)

\* C6: when the expense call and then the forms call raise the
\* unsupported-document condition, the local parser is invoked after both
\* and its output is returned; in it every page that has text is preceded
\* by the marker line of its 1-indexed page number, pages in page order.
C6_LocalParserMarkers ==
  (ePc = "done" /\ eExpense.kind = "unsupported" /\ eForms.kind = "unsupported") =>
    /\ eCalls = <<"analyze_expense", "analyze_document", "PyPDF2">>
    /\ ePdf.kind = "pages" =>
         LET pages == ePdf.pages
             withText == SelectSeq(PageNumbers(pages), LAMBDA n : HasText(pages[n]))
         IN /\ SelectSeq(eResult, IsMarker)
                 = [k \in 1..Len(withText) |-> ExpectedMarkers[withText[k]]]
            /\ \A p \in 1..Len(eResult) :
                 IsMarker(eResult[p]) =>
                   \E n \in 1..Len(pages) :
                     /\ eResult[p] = ExpectedMarkers[n]
                     /\ Strip(AfterMarker(eResult, p)) = Strip(pages[n])
            /\ (Len(pages) = 1 /\ HasText(pages[1])) => eResult[1] = "--- PAGE 1 ---"

\* both OCR calls unsupported, then a document of two pages with text
C6_Witness ==
  /\ ePc = "done"
  /\ eExpense.kind = "unsupported"
  /\ eForms.kind = "unsupported"
  /\ ePdf.kind = "pages"
  /\ Len(ePdf.pages) = 2
  /\ ePdf.pages[1] = <<"a">>
  /\ ePdf.pages[2] = <<"a", " ">>
  /\ eResult = <<"--- PAGE 1 ---", "\n", "a", "\n", "--- PAGE 2 ---", "\n", "a">>

\* C7: an error of an OCR call other than the unsupported-document
\* condition becomes a returned string that starts with "Error occurred: "
C7_OcrErrorBecomesMarker ==
  (ePc = "done" /\ (eExpense.kind = "error" \/ eForms.kind = "error")) =>
    StartsWith(eResult, "Error occurred: ")

\* every step that was attempted found no text
ExpenseEmpty == eExpense.kind = "fields" /\ eExpense.n = 0
FormsEmpty == eForms.kind = "blocks" /\ Strip(LineText(eForms.blocks)) = <<>>
PdfEmpty == ePdf.kind = "pages" /\ \A n \in 1..Len(ePdf.pages) : ~HasText(ePdf.pages[n])
NoStepFoundText ==
  /\ eExpense.kind \in {"none", "unsupported", "error"} \/ ExpenseEmpty
  /\ eForms.kind \in {"none", "unsupported", "error"} \/ FormsEmpty
  /\ ePdf.kind = "none" \/ PdfEmpty
  /\ ExpenseEmpty \/ FormsEmpty \/ PdfEmpty

\* C8: when every attempted step yields no text the result is exactly
\* "No text was detected in the document."; the result is never empty.
C8_NoTextMarker ==
  ePc = "done" =>
    /\ eResult # <<>>
    /\ NoStepFoundText => eResult = <<"No text was detected in the document.">>

(***************************************************************************)
(* Properties of the filter (checked under SpecFilter).                    *)
(***************************************************************************)
\* pat matches somewhere in s: its phrase, then a boundary at or after
\* the end of the phrase
Matches(s, pat) ==
  \E i \in 1..Len(s) :
    /\ OccursAt(s, pat.phrase, i)
    /\ \E j \in (i + Len(pat.phrase))..Len(s) : OccursAt(s, pat.boundary, j)

\* none of the boilerplate patterns and no image placeholder matches in s
NoMatch(s) ==
  /\ \A k \in 1..Len(patterns) : ~Matches(s, patterns[k])
  /\ ~Matches(s, ImagePattern)

\* C9: filter(filter(x)) = filter(x); no pattern of the list matches in
\* the filtered text, so a removal exposes no new match.
C9_Idempotent ==
  /\ fPc = "twice" => fOut2 = fOut1
  /\ fPc \in {"once", "twice"} => NoMatch(fOut1)

\* a text in which two patterns match and of which something is left
C9_Witness ==
  /\ fPc = "twice"
  /\ fIn = <<"Other", " ", "Policies", "\n", "\n">>
  /\ Matches(fIn, patterns[3])
  /\ fOut1 = <<"Other">>
  /\ fOut2 = fOut1

\* C10 as claimed: the filter is the identity on every text in which no
\* pattern matches, texts that begin or end with whitespace included.
C10_IdentityOnNoMatch ==
  (fPc \in {"once", "twice"} /\ NoMatch(fIn)) => fOut1 = fIn

\* C10 as amended: on a text in which no pattern matches the filter
\* returns the text with its leading and trailing whitespace removed; it
\* is the identity when the text neither begins nor ends with whitespace.
C10_IdentityUpToTrim ==
  (fPc \in {"once", "twice"} /\ NoMatch(fIn)) =>
    /\ fOut1 = Strip(fIn)
    /\ (fIn = <<>> \/ (fIn[1] \notin Whitespace /\ fIn[Len(fIn)] \notin Whitespace))
         => fOut1 = fIn

\* a text with a phrase but no boundary after it, between whitespace
C10_Witness ==
  /\ fPc = "once"
  /\ NoMatch(fIn)
  /\ fIn = <<" ", "Policies", " ", "Other", "\n">>
  /\ fOut1 = <<"Policies", " ", "Other">>

\* the phrase p stands somewhere in s
PhraseOccurs(s, p) == \E i \in 1..Len(s) : OccursAt(s, p, i)

\* every occurrence of p in s has a blank line (a raw double newline) at
\* or after its end
FollowedByBlankLine(s, p) ==
  \A i \in 1..Len(s) :
    OccursAt(s, p, i) =>
      \E j \in (i + Len(p))..Len(s) : OccursAt(s, RawBoundary, j)

\* C11: for every phrase of the list, the first entries and the later
\* ones alike, when each occurrence of the phrase in the input is followed
\* by a blank line the phrase is removed with the text up to that blank
\* line: the output holds no occurrence of the phrase.
C11_PhrasesRemoved ==
  fPc \in {"once", "twice"} =>
    \A k \in 1..Len(patterns) :
      FollowedByBlankLine(fIn, patterns[k].phrase) =>
        ~PhraseOccurs(fOut1, patterns[k].phrase)

\* the text is empty or holds whitespace only
EmptyOrWhitespace(s) == \A i \in 1..Len(s) : s[i] \in {" ", "\n"}

MultiDone(req) ==
  req.pc = "done" /\ req.handed.fn = "summarize_multiple_documents"

\* the header line that carries a document's identifier
HeaderLine(name) == <<"--- Content from ">> \o name \o <<" ---">>

\* a document's section of the corpus: its header line, a blank line, and
\* its text, as extracted or as the filter leaves it when run on it alone;
\* whitespace at the end of a section is not asked for
Sections(doc) ==
  {RStrip(HeaderLine(doc.name) \o <<"\n", "\n">> \o t) :
     t \in {doc.text, filter_terms_and_conditions(doc.text)}}

\* the sections of docs stand in s, one after the other, in order
InOrder(s, docs) ==
  \E at \in [1..Len(docs) -> 1..Len(s)] :
    /\ \A k \in 1..Len(docs) : \E sec \in Sections(docs[k]) : OccursAt(s, sec, at[k])
    /\ \A k \in 1..(Len(docs) - 1) : at[k] < at[k + 1]

\* C12: the corpus text handed to the summarizer holds, for each document
\* that was extracted, its header with its identifier followed by its
\* text, in submission order, each exactly once; the list of source
\* identifiers has the same order and length.
C12_AggregateRoundTrip ==
  \A r \in Requests :
    MultiDone(uReq[r]) =>
      LET docs == uReq[r].documents
          text == uReq[r].handed.text
      IN /\ uReq[r].handed.file_names = [k \in 1..Len(docs) |-> docs[k].name]
         /\ InOrder(text, docs)
         /\ Cardinality({i \in 1..Len(text) : text[i] = "--- Content from "}) = Len(docs)

\* the aggregate of documents each filtered on its own
RECURSIVE FilteredAggregate(_)
FilteredAggregate(docs) ==
  IF docs = <<>> THEN <<>>
  ELSE Header(Head(docs).name) \o filter_terms_and_conditions(Head(docs).text)
       \o FilteredAggregate(Tail(docs))

\* C14: the stages run in the order extract, filter, aggregate, summarize,
\* repair: the filter runs on each document before it is aggregated and
\* never on the aggregated corpus, so what the summarizer receives is the
\* aggregate of the documents' filtered texts, every header intact.
C14_FilterBeforeAggregate ==
  \A r \in Requests :
    LET stages == uReq[r].stages IN
    /\ \A i \in 1..Len(stages) :
         /\ stages[i].stage = "filter" => stages[i].on = "document"
         /\ stages[i].stage = "aggregate" => (i > 1 /\ stages[i - 1].stage = "filter")
    /\ MultiDone(uReq[r]) =>
         Strip(uReq[r].handed.text) = Strip(FilteredAggregate(uReq[r].documents))

\* the texts of the documents a request submitted
OwnTexts(req) == {req.files[k].text : k \in 1..Len(req.files)}

\* the file the request saved last, and has not finished with, holds the
\* bytes the request saved
HoldsOwnBytes(req) ==
  LET file == IF req.pc = "extract" THEN req.files[req.i] ELSE req.files[1]
  IN req.pc \in {"read", "summarize", "cleanup", "extract"} =>
       uDisk[req.file_path] = [present |-> TRUE, text |-> file.text]

\* C15: for every interleaving of two requests, each request extracts and
\* summarizes the text of its own documents only, and the file a request
\* saved and has not finished with is neither overwritten nor removed by
\* the other request.
C15_NoSharedState ==
  \A r \in Requests :
    LET req == uReq[r] IN
    /\ HoldsOwnBytes(req)
    /\ \A k \in 1..Len(req.stages) :
         req.stages[k].stage = "extract" => req.extracted_text \in OwnTexts(req)
    /\ \A k \in 1..Len(req.documents) : req.documents[k].text \in OwnTexts(req)

\* C16: when a request has returned its response, every file it saved
\* into the uploads folder has been removed, on every path of both routes.
C16_SavedFilesRemoved ==
  \A r \in Requests :
    uReq[r].pc = "done" =>
      \A k \in 1..Len(uReq[r].saved) : ~uDisk[uReq[r].saved[k]].present

====
